---- MODULE Spec2Model ----
(***************************************************************************)
(* A model of the AI-generated video detector's scoring engine:            *)
(*   backend/app/utils/metrics.py          ensemble_score, classify_score, *)
(*                                         get_risk_level                  *)
(*   backend/app/services/video_analysis.py heuristic_score, analyze_video *)
(*   backend/app/models/detector.py        load_detector, preprocess_frames*)
(*   backend/app/utils/video_utils.py      extract_frames                  *)
(*                                                                         *)
(* Numbers.  A Python float is a record [k, v]: k = "num" carries a        *)
(* fixed-point value v in units of 1/One (One = 1.0), k = "nan", k = "inf" *)
(* (v = 1 or -1 is the sign).  None and a non-numeric object are the kinds *)
(* "none" and "str".  Raw image statistics (Laplacian variance, pixel      *)
(* differences, gradient and spectrum energies) are integers in units of   *)
(* 1/RawOne.  The OpenCV / NumPy / PyTorch routines are not modelled: a    *)
(* frame is the record of the measurements those routines return for it.   *)
(***************************************************************************)
EXTENDS Integers, Sequences, FiniteSets, TLC

VARIABLES
    fn,      \* direct call of a scoring function: its name, "idle" before any
    args,    \* the arguments of that call
    ret,     \* what the call returned or raised
    pc,      \* position of the analyze_video invocation
    video,   \* the uploaded video as the decoder sees it
    env,     \* the external model's environment (weights path, torch, outcomes)
    loc,     \* the locals of analyze_video
    calls,   \* the helper calls analyze_video has made, in order
    result,  \* what analyze_video returned or raised
    invs,    \* the analyze_video invocations running in one process
    loads,   \* how many times the process has loaded the model weights
    reqs,    \* the requests to POST /api/analyze being served
    upload_dir,  \* UPLOAD_DIR: what each file in it holds
    issued   \* the values uuid.uuid4() has returned

vars == <<fn, args, ret, pc, video, env, loc, calls, result, invs, loads,
          reqs, upload_dir, issued>>

fnVars == <<fn, args, ret>>
avVars == <<pc, video, env, loc, calls, result>>
procVars == <<invs, loads>>
routeVars == <<reqs, upload_dir, issued>>

----------------------------------------------------------------------------
(* Units and program constants (backend/app/constants.py)                  *)

One == 10000
RawOne == One \div 100

CLASSIFICATION_THRESHOLD == 5000
HEURISTIC_WEIGHT_SHARPNESS == 3500
HEURISTIC_WEIGHT_COMPRESSION == 2500
HEURISTIC_WEIGHT_OPTICAL_FLOW == 2000
HEURISTIC_WEIGHT_FREQUENCY == 2000
SHARPNESS_CONSISTENCY_DIVISOR == 20000
TEMPORAL_DIFF_LOW_PENALTY == 2500
TEMPORAL_DIFF_HIGH_PENALTY == 2000
ENTROPY_STD_DIVISOR == 10000
ENSEMBLE_WEIGHT_HEURISTIC == 4000
ENSEMBLE_WEIGHT_MODEL == 6000
RISK_LEVEL_LOW_THRESHOLD == 3500
RISK_LEVEL_MEDIUM_THRESHOLD == 6500

----------------------------------------------------------------------------
(* Bounds of the model                                                     *)

GridPad == 2          \* grid points kept outside [0,1] on each side
MaxSourceFrames == 4  \* longest decoded video, in source frames
MaxFramesCfg == 3     \* config.MAX_FRAMES (environment, default 64)
MaxDuration == 1      \* longest processing time, in hundredths of a second

----------------------------------------------------------------------------
(* Python values                                                           *)

Num(v) == [k |-> "num", v |-> v]
NaN == [k |-> "nan", v |-> 0]
PosInf == [k |-> "inf", v |-> 1]
NegInf == [k |-> "inf", v |-> -1]
None == [k |-> "none", v |-> 0]
NonNumeric == [k |-> "str", v |-> 0]

\* isinstance(x, (int, float))
IsIntOrFloat(x) == x.k \in {"num", "nan", "inf"}

\* np.isnan(x), x an int or a float
IsNan(x) == x.k = "nan"

\* a <= b on floats: false as soon as either side is NaN
Leq(a, b) ==
    /\ a.k # "nan" /\ b.k # "nan"
    /\ CASE a.k = "inf" /\ a.v < 0 -> TRUE
         [] b.k = "inf" /\ b.v > 0 -> TRUE
         [] a.k = "inf" -> b.k = "inf" /\ b.v > 0
         [] b.k = "inf" -> a.k = "inf" /\ a.v < 0
         [] OTHER -> a.v <= b.v

\* a < b on floats
Lt(a, b) == a.k # "nan" /\ b.k # "nan" /\ ~Leq(b, a)

\* float(np.clip(x, lo, hi)), lo and hi finite fixed-point numbers
Clip(x, lo, hi) ==
    CASE x.k = "nan" -> NaN
      [] x.k = "inf" -> IF x.v > 0 THEN Num(hi) ELSE Num(lo)
      [] OTHER -> IF x.v < lo THEN Num(lo) ELSE IF x.v > hi THEN Num(hi) ELSE x

\* fixed-point product of a weight and a score
Mul(a, b) == (a * b) \div One

----------------------------------------------------------------------------
(* backend/app/utils/metrics.py                                            *)

\* ensemble_score with the two weights exchanged
ensemble_score_swapped(heuristic_score, model_score) ==
    IF ~IsIntOrFloat(heuristic_score) \/ IsNan(heuristic_score)
    THEN [exc |-> "ValueError", conf |-> None, method |-> "none"]
    ELSE LET h == Clip(heuristic_score, 0, One)
             model_available ==
                 /\ model_score.k # "none"
                 /\ IsIntOrFloat(model_score)
                 /\ ~IsNan(model_score)
                 /\ Leq(Num(0), model_score)
                 /\ Leq(model_score, Num(One))
         IN  IF ~model_available
             THEN [exc |-> "none", conf |-> h, method |-> "heuristic"]
             ELSE LET m == Clip(model_score, 0, One)
                      ensemble_result ==
                          Mul(ENSEMBLE_WEIGHT_MODEL, h.v)
                              + Mul(ENSEMBLE_WEIGHT_HEURISTIC, m.v)
                  IN  [exc |-> "none",
                       conf |-> Clip(Num(ensemble_result), 0, One),
                       method |-> "ensemble"]

\* ensemble_score reading a missing model score as 0.0 (model_score or 0.0)
ensemble_score_none_as_zero(heuristic_score, model_score) ==
    IF ~IsIntOrFloat(heuristic_score) \/ IsNan(heuristic_score)
    THEN [exc |-> "ValueError", conf |-> None, method |-> "none"]
    ELSE LET h == Clip(heuristic_score, 0, One)
             ms == IF model_score.k = "none" THEN Num(0) ELSE model_score
             model_available ==
                 /\ IsIntOrFloat(ms)
                 /\ ~IsNan(ms)
                 /\ Leq(Num(0), ms)
                 /\ Leq(ms, Num(One))
         IN  IF ~model_available
             THEN [exc |-> "none", conf |-> h, method |-> "heuristic"]
             ELSE LET m == Clip(ms, 0, One)
                      ensemble_result ==
                          Mul(ENSEMBLE_WEIGHT_HEURISTIC, h.v)
                              + Mul(ENSEMBLE_WEIGHT_MODEL, m.v)
                  IN  [exc |-> "none",
                       conf |-> Clip(Num(ensemble_result), 0, One),
                       method |-> "ensemble"]

\* ensemble_score without the range test: an out-of-range model score is
\* clamped and used
ensemble_score_clamps_model(heuristic_score, model_score) ==
    IF ~IsIntOrFloat(heuristic_score) \/ IsNan(heuristic_score)
    THEN [exc |-> "ValueError", conf |-> None, method |-> "none"]
    ELSE LET h == Clip(heuristic_score, 0, One)
             model_available ==
                 /\ model_score.k # "none"
                 /\ IsIntOrFloat(model_score)
                 /\ ~IsNan(model_score)
         IN  IF ~model_available
             THEN [exc |-> "none", conf |-> h, method |-> "heuristic"]
             ELSE LET m == Clip(model_score, 0, One)
                      ensemble_result ==
                          Mul(ENSEMBLE_WEIGHT_HEURISTIC, h.v)
                              + Mul(ENSEMBLE_WEIGHT_MODEL, m.v)
                  IN  [exc |-> "none",
                       conf |-> Clip(Num(ensemble_result), 0, One),
                       method |-> "ensemble"]

\* ensemble_score answering with the model's score alone, tagged "model",
\* when the model is available
ensemble_score_model_only(heuristic_score, model_score) ==
    IF ~IsIntOrFloat(heuristic_score) \/ IsNan(heuristic_score)
    THEN [exc |-> "ValueError", conf |-> None, method |-> "none"]
    ELSE LET h == Clip(heuristic_score, 0, One)
             model_available ==
                 /\ model_score.k # "none"
                 /\ IsIntOrFloat(model_score)
                 /\ ~IsNan(model_score)
                 /\ Leq(Num(0), model_score)
                 /\ Leq(model_score, Num(One))
         IN  IF ~model_available
             THEN [exc |-> "none", conf |-> h, method |-> "heuristic"]
             ELSE [exc |-> "none", conf |-> Clip(model_score, 0, One),
                   method |-> "model"]

\* ensemble_score(heuristic_score, model_score) -> (confidence, method),
\* or ValueError
ensemble_score(heuristic_score, model_score) ==
    IF ~IsIntOrFloat(heuristic_score) \/ IsNan(heuristic_score)
    THEN [exc |-> "ValueError", conf |-> None, method |-> "none"]
    ELSE LET h == Clip(heuristic_score, 0, One)
             model_available ==
                 /\ model_score.k # "none"
                 /\ IsIntOrFloat(model_score)
                 /\ ~IsNan(model_score)
                 /\ Leq(Num(0), model_score)
                 /\ Leq(model_score, Num(One))
         IN  IF ~model_available
             THEN [exc |-> "none", conf |-> h, method |-> "heuristic"]
             ELSE LET m == Clip(model_score, 0, One)
                      ensemble_result ==
                          Mul(ENSEMBLE_WEIGHT_HEURISTIC, h.v)
                              + Mul(ENSEMBLE_WEIGHT_MODEL, m.v)
                  IN  [exc |-> "none",
                       conf |-> Clip(Num(ensemble_result), 0, One),
                       method |-> "ensemble"]

\* classify_score with a strict comparison
classify_score_strict(confidence) ==
    IF ~IsIntOrFloat(confidence) \/ IsNan(confidence)
    THEN FALSE
    ELSE Lt(Num(CLASSIFICATION_THRESHOLD), confidence)

\* classify_score(confidence, threshold = CLASSIFICATION_THRESHOLD) -> bool
classify_score(confidence) ==
    IF ~IsIntOrFloat(confidence) \/ IsNan(confidence)
    THEN FALSE
    ELSE Leq(Num(CLASSIFICATION_THRESHOLD), confidence)

\* get_risk_level with the band edges on the other side (<= for <)
get_risk_level_inclusive(confidence) ==
    IF ~IsIntOrFloat(confidence) \/ IsNan(confidence)
    THEN "medium"
    ELSE LET c == Clip(confidence, 0, One)
         IN  IF Leq(c, Num(RISK_LEVEL_LOW_THRESHOLD)) THEN "low"
             ELSE IF Leq(c, Num(RISK_LEVEL_MEDIUM_THRESHOLD)) THEN "medium"
             ELSE "high"

\* get_risk_level without the validity test: NaN fails both comparisons
\* and falls through to "high", a non-number counts as 0
get_risk_level_unvalidated(confidence) ==
    IF ~IsIntOrFloat(confidence) THEN "low"
    ELSE LET c == Clip(confidence, 0, One)
         IN  IF Lt(c, Num(RISK_LEVEL_LOW_THRESHOLD)) THEN "low"
             ELSE IF Lt(c, Num(RISK_LEVEL_MEDIUM_THRESHOLD)) THEN "medium"
             ELSE "high"

\* get_risk_level(confidence) -> "low" | "medium" | "high"
get_risk_level(confidence) ==
    IF ~IsIntOrFloat(confidence) \/ IsNan(confidence)
    THEN "medium"
    ELSE LET c == Clip(confidence, 0, One)
         IN  IF Lt(c, Num(RISK_LEVEL_LOW_THRESHOLD)) THEN "low"
             ELSE IF Lt(c, Num(RISK_LEVEL_MEDIUM_THRESHOLD)) THEN "medium"
             ELSE "high"

----------------------------------------------------------------------------
(* Numeric helpers (NumPy routines on fixed-point integers)                *)

Min(a, b) == IF a <= b THEN a ELSE b
Max(a, b) == IF a >= b THEN a ELSE b
Abs(a) == IF a < 0 THEN -a ELSE a

RECURSIVE SumSeq(_)
SumSeq(s) == IF s = <<>> THEN 0 ELSE Head(s) + SumSeq(Tail(s))

\* np.mean of a non-empty sequence
Mean(s) == SumSeq(s) \div Len(s)

RECURSIVE IsqrtIter(_, _, _)
IsqrtIter(n, lo, hi) ==
    IF lo >= hi THEN lo
    ELSE LET mid == (lo + hi + 1) \div 2
         IN  IF mid * mid <= n THEN IsqrtIter(n, mid, hi)
             ELSE IsqrtIter(n, lo, mid - 1)

\* floor of the square root, 0 <= n < 2^31
Isqrt(n) == IsqrtIter(n, 0, 46340)

\* np.std of a non-empty sequence (population standard deviation)
Std(s) ==
    LET mu == Mean(s)
        sq == [i \in 1..Len(s) |-> (s[i] - mu) * (s[i] - mu)]
    IN  Isqrt(SumSeq(sq) \div Len(s))

\* round(x, nd) of a value in units of 1/unit: to the nearest multiple of
\* 10^-nd, ties to the even multiple
Round(x, unit, nd) ==
    LET p == IF nd = 2 THEN 100 ELSE 10000
        q == unit \div p
    IN  IF q <= 1 THEN x
        ELSE LET lo == (x \div q) * q
                 r == x - lo
             IN  IF 2 * r < q THEN lo
                 ELSE IF 2 * r > q THEN lo + q
                 ELSE IF (lo \div q) % 2 = 0 THEN lo ELSE lo + q

\* The values round(x, nd) can return for the binary float nearest to x: a
\* decimal tie (x exactly halfway) is almost never a tie in binary, and the
\* float then lies just below or just above it (round(0.645, 2) = 0.65,
\* round(0.495, 2) = 0.49), so both neighbours are outcomes.
RoundOutcomes(x, unit, nd) ==
    LET p == IF nd = 2 THEN 100 ELSE 10000
        q == unit \div p
        lo == (x \div q) * q
    IN  IF q > 1 /\ 2 * (x - lo) = q THEN {lo, lo + q}
        ELSE {Round(x, unit, nd)}

----------------------------------------------------------------------------
(* Frames.  A frame is what the image routines measure on it:              *)
(*   lap    cv2.Laplacian(gray).var()                 (_laplacian_variance)*)
(*   blocks whether the frame is larger than one 8x8 block, so that        *)
(*          boundary_edges is not empty      (_compression_artifacts_score)*)
(*   bnd    np.mean(boundary_edges);  inter  np.mean(gradient)             *)
(*   low    low_freq_region.sum();    high   magnitude_log.sum() - low     *)
(*   ent    the Shannon entropy of the HSV histogram, in units of 1/RawOne *)
(*   gray   the brightness level; frames of one video differ by a uniform  *)
(*          brightness offset, so np.mean(|g1 - g2|) = |gray1 - gray2|     *)
(*   faces  len(face_cascade.detectMultiScale(gray, ...))                  *)

Frame(lap, blocks, bnd, inter, low, high, ent, gray, faces) ==
    [lap |-> lap, blocks |-> blocks, bnd |-> bnd, inter |-> inter,
     low |-> low, high |-> high, ent |-> ent, gray |-> gray, faces |-> faces]

FlatBlack == Frame(0, TRUE, 0, 0, 0, 0, 0, 0, 0)
\* one constant grey: no edges, all spectral energy in the zero frequency
FlatGrey == Frame(0, TRUE, 0, 0, 1400, 0, 0, 12800, 0)
FaceA == Frame(5000, TRUE, 3000, 2000, 60000, 40000, 520, 10000, 1)
FaceB == Frame(15000, TRUE, 1000, 2000, 80000, 20000, 400, 16000, 2)
Scenery == Frame(10000, TRUE, 1500, 2000, 85000, 15000, 610, 10500, 0)
Thumbnail == Frame(2000, FALSE, 0, 1000, 900, 100, 300, 4000, 0)

FrameKinds == {FlatBlack, FaceA, FaceB, Scenery, Thumbnail}

RECURSIVE SeqsUpTo(_, _)
SeqsUpTo(S, n) ==
    IF n = 0 THEN {<<>>}
    ELSE LET shorter == SeqsUpTo(S, n - 1)
         IN  shorter \cup {Append(q, x) : q \in {r \in shorter : Len(r) = n - 1}, x \in S}

\* the frames of one video have one size
SameSize(s) == \A i, j \in 1..Len(s) : s[i].blocks = s[j].blocks

FrameSets(n) == {s \in SeqsUpTo(FrameKinds, n) : SameSize(s)}

\* frames of one constant colour, and the videos made of one such frame
\* repeated
ConstantColour == {FlatBlack, FlatGrey}
ConstantSets(n) == {[i \in 1..k |-> f] : k \in 1..n, f \in ConstantColour}
InputFrameSets(n) == FrameSets(n) \cup ConstantSets(n)

----------------------------------------------------------------------------
(* backend/app/services/video_analysis.py: the feature extractors          *)

\* _temporal_difference(frames): mean absolute difference of consecutive frames
temporal_difference(frames) ==
    IF Len(frames) < 2 THEN <<0>>
    ELSE [i \in 1..(Len(frames) - 1) |-> Abs(frames[i].gray - frames[i + 1].gray)]

\* the per-frame artifact ratios _compression_artifacts_score appends
RECURSIVE artifact_scores(_)
artifact_scores(frames) ==
    IF frames = <<>> THEN <<>>
    ELSE LET f == Head(frames)
             artifact_ratio ==
                 IF f.inter > 0 THEN Min(One, (f.bnd * One) \div f.inter) ELSE 0
         IN  IF f.blocks THEN <<artifact_ratio>> \o artifact_scores(Tail(frames))
             ELSE artifact_scores(Tail(frames))

\* _compression_artifacts_score(frames)
compression_artifacts_score(frames) ==
    IF frames = <<>> THEN 0
    ELSE LET sc == artifact_scores(frames)
         IN  IF sc # <<>> THEN Mean(sc) ELSE 0

\* _frequency_anomaly_score(frames)
frequency_anomaly_score(frames) ==
    IF frames = <<>> THEN 0
    ELSE LET one(f) ==
                 LET high_freq_ratio ==
                         IF f.low > 0 THEN (f.high * One) \div (f.low + f.high)
                         ELSE 0
                     \* natural_high_freq_ratio = 0.15
                     anomaly == Abs(high_freq_ratio - (15 * One) \div 100)
                 IN  Min(One, anomaly * 5)
             frequency_scores == [i \in 1..Len(frames) |-> one(frames[i])]
         IN  Mean(frequency_scores)

\* _contains_human(frames, required_faces): the scan with its early exit;
\* count is the number of faces seen so far
RECURSIVE contains_human_scan(_, _, _)
contains_human_scan(frames, required_faces, count) ==
    IF frames = <<>> THEN FALSE
    ELSE LET n == Head(frames).faces
             c == IF n > 0 THEN count + n ELSE count
         IN  IF c >= required_faces THEN TRUE
             ELSE contains_human_scan(Tail(frames), required_faces, c)

\* _contains_human leaving the loop after the first frame whatever it holds
contains_human_first_frame(frames, cascadeLoaded) ==
    IF ~cascadeLoaded THEN FALSE
    ELSE frames # <<>> /\ Head(frames).faces >= 1

\* _contains_human(frames, required_faces = 1); cascadeLoaded is
\* not face_cascade.empty()
contains_human(frames, cascadeLoaded) ==
    IF ~cascadeLoaded THEN FALSE
    ELSE contains_human_scan(frames, 1, 0)

----------------------------------------------------------------------------
(* backend/app/services/video_analysis.py: heuristic_score                 *)

\* Feature 1: sharpness consistency; lap_mean "or 1e-6" is the smallest
\* positive raw unit here
sharpness_stats(frames) ==
    LET lap_vars == [i \in 1..Len(frames) |-> frames[i].lap]
        lap_std == Std(lap_vars)
        m == Mean(lap_vars)
        lap_mean == IF m = 0 THEN 1 ELSE m
        sharpness_consistency == (lap_std * One) \div lap_mean
    IN  [lap_std |-> lap_std,
         score |-> Min(One, (sharpness_consistency * One)
                                \div SHARPNESS_CONSISTENCY_DIVISOR)]

\* Feature 3 with the motion inconsistency counted only at the extremes
optical_flow_stats_std_at_extremes(frames) ==
    LET temp_diffs == temporal_difference(frames)
        temp_mean == Mean(temp_diffs)
        temp_std == IF Len(temp_diffs) > 1 THEN Std(temp_diffs) ELSE 0
        normalized_temp_mean == Min(One, (temp_mean * One) \div (50 * RawOne))
        normalized_temp_std == Min(One, (temp_std * One) \div (30 * RawOne))
        penalty ==
            IF normalized_temp_mean < One \div 10 THEN TEMPORAL_DIFF_LOW_PENALTY
            ELSE IF normalized_temp_mean > (8 * One) \div 10
                 THEN TEMPORAL_DIFF_HIGH_PENALTY
            ELSE 0
    IN  [temp_mean |-> temp_mean, temp_std |-> temp_std,
         normalized_temp_mean |-> normalized_temp_mean,
         normalized_temp_std |-> normalized_temp_std,
         score |-> IF penalty = 0 THEN 0
                   ELSE Min(One, penalty + Mul(normalized_temp_std, (6 * One) \div 10))]

\* Feature 3 without the penalty for too little motion
optical_flow_stats_no_static_penalty(frames) ==
    LET temp_diffs == temporal_difference(frames)
        temp_mean == Mean(temp_diffs)
        temp_std == IF Len(temp_diffs) > 1 THEN Std(temp_diffs) ELSE 0
        normalized_temp_mean == Min(One, (temp_mean * One) \div (50 * RawOne))
        normalized_temp_std == Min(One, (temp_std * One) \div (30 * RawOne))
        penalty ==
            IF normalized_temp_mean > (8 * One) \div 10
            THEN TEMPORAL_DIFF_HIGH_PENALTY
            ELSE 0
    IN  [temp_mean |-> temp_mean, temp_std |-> temp_std,
         normalized_temp_mean |-> normalized_temp_mean,
         normalized_temp_std |-> normalized_temp_std,
         score |-> Min(One, penalty + Mul(normalized_temp_std, (6 * One) \div 10))]

\* Feature 3: temporal motion (the "optical flow" score)
optical_flow_stats(frames) ==
    LET temp_diffs == temporal_difference(frames)
        temp_mean == Mean(temp_diffs)
        temp_std == IF Len(temp_diffs) > 1 THEN Std(temp_diffs) ELSE 0
        normalized_temp_mean == Min(One, (temp_mean * One) \div (50 * RawOne))
        normalized_temp_std == Min(One, (temp_std * One) \div (30 * RawOne))
        penalty ==
            IF normalized_temp_mean < One \div 10 THEN TEMPORAL_DIFF_LOW_PENALTY
            ELSE IF normalized_temp_mean > (8 * One) \div 10
                 THEN TEMPORAL_DIFF_HIGH_PENALTY
            ELSE 0
    IN  [temp_mean |-> temp_mean, temp_std |-> temp_std,
         normalized_temp_mean |-> normalized_temp_mean,
         normalized_temp_std |-> normalized_temp_std,
         score |-> Min(One, penalty + Mul(normalized_temp_std, (6 * One) \div 10))]

\* Feature 5: colour-distribution entropy
entropy_score_of(frames) ==
    LET entropies == [i \in 1..Len(frames) |-> frames[i].ent]
        entropy_std == Std(entropies)
    IN  Min(One, (((entropy_std * One) \div RawOne) * One)
                     \div ENTROPY_STD_DIVISOR)

\* the weighted combination with the entropy feature taking a share of the
\* frequency weight
raw_score_with_entropy(sharpness_score, compression_score, optical_flow_score, frequency_score, entropy_score) ==
    Mul(HEURISTIC_WEIGHT_SHARPNESS, sharpness_score)
        + Mul(HEURISTIC_WEIGHT_COMPRESSION, compression_score)
        + Mul(HEURISTIC_WEIGHT_OPTICAL_FLOW, optical_flow_score)
        + Mul(HEURISTIC_WEIGHT_FREQUENCY \div 2, frequency_score)
        + Mul(HEURISTIC_WEIGHT_FREQUENCY \div 2, entropy_score)

\* the weighted combination with the sharpness weight pasted onto the
\* frequency term
raw_score_pasted_weight(sharpness_score, compression_score, optical_flow_score, frequency_score, entropy_score) ==
    Mul(HEURISTIC_WEIGHT_SHARPNESS, sharpness_score)
        + Mul(HEURISTIC_WEIGHT_COMPRESSION, compression_score)
        + Mul(HEURISTIC_WEIGHT_OPTICAL_FLOW, optical_flow_score)
        + Mul(HEURISTIC_WEIGHT_SHARPNESS, frequency_score)

\* the weighted combination of the features, before the clip
raw_score_of(sharpness_score, compression_score, optical_flow_score, frequency_score, entropy_score) ==
    Mul(HEURISTIC_WEIGHT_SHARPNESS, sharpness_score)
        + Mul(HEURISTIC_WEIGHT_COMPRESSION, compression_score)
        + Mul(HEURISTIC_WEIGHT_OPTICAL_FLOW, optical_flow_score)
        + Mul(HEURISTIC_WEIGHT_FREQUENCY, frequency_score)

NoDetails == [none |-> 0]

\* heuristic_score without its check of the argument: on no frames it
\* returns a score
heuristic_score_no_guard(frames) ==
    IF frames = <<>>
    THEN [exc |-> "none", score |-> 0, details |-> NoDetails]
    ELSE LET sharp == sharpness_stats(frames)
             compression_score == compression_artifacts_score(frames)
             flow == optical_flow_stats(frames)
             frequency_score == frequency_anomaly_score(frames)
             entropy_score == entropy_score_of(frames)
             raw_score == raw_score_of(sharp.score, compression_score,
                                       flow.score, frequency_score,
                                       entropy_score)
             final_score == Clip(Num(raw_score), 0, One).v
         IN  [exc |-> "none",
              score |-> final_score,
              details |->
                [sharpness_score |-> Round(sharp.score, One, 4),
                 compression_score |-> Round(compression_score, One, 4),
                 optical_flow_score |-> Round(flow.score, One, 4),
                 frequency_score |-> Round(frequency_score, One, 4),
                 entropy_score |-> Round(entropy_score, One, 4),
                 sharpness_std |-> Round(sharp.lap_std, RawOne, 4),
                 temporal_diff_mean |-> Round(flow.temp_mean, RawOne, 4),
                 temporal_diff_std |-> Round(flow.temp_std, RawOne, 4),
                 normalized_temporal_mean |->
                     Round(flow.normalized_temp_mean, One, 4),
                 normalized_temporal_std |->
                     Round(flow.normalized_temp_std, One, 4)]]

\* heuristic_score(frames) -> (final_score, details), or ValueError
heuristic_score(frames) ==
    IF frames = <<>>
    THEN [exc |-> "ValueError", score |-> 0, details |-> NoDetails]
    ELSE LET sharp == sharpness_stats(frames)
             compression_score == compression_artifacts_score(frames)
             flow == optical_flow_stats(frames)
             frequency_score == frequency_anomaly_score(frames)
             entropy_score == entropy_score_of(frames)
             raw_score == raw_score_of(sharp.score, compression_score,
                                       flow.score, frequency_score,
                                       entropy_score)
             final_score == Clip(Num(raw_score), 0, One).v
         IN  [exc |-> "none",
              score |-> final_score,
              details |->
                [sharpness_score |-> Round(sharp.score, One, 4),
                 compression_score |-> Round(compression_score, One, 4),
                 optical_flow_score |-> Round(flow.score, One, 4),
                 frequency_score |-> Round(frequency_score, One, 4),
                 entropy_score |-> Round(entropy_score, One, 4),
                 sharpness_std |-> Round(sharp.lap_std, RawOne, 4),
                 temporal_diff_mean |-> Round(flow.temp_mean, RawOne, 4),
                 temporal_diff_std |-> Round(flow.temp_std, RawOne, 4),
                 normalized_temporal_mean |->
                     Round(flow.normalized_temp_mean, One, 4),
                 normalized_temporal_std |->
                     Round(flow.normalized_temp_std, One, 4)]]

----------------------------------------------------------------------------
(* backend/app/utils/video_utils.py: extract_frames                        *)
(* A video is [opened, fps, src, crash]: whether cv2.VideoCapture opens    *)
(* it, the frame rate it reports (0: unavailable), the frames cap.read()   *)
(* delivers before ret = False, and whether reading raises an unexpected   *)
(* error.                                                                  *)

FRAMES_PER_SECOND_SAMPLED == 10   \* config.py, in tenths of a frame per second

\* the while loop of extract_frames
RECURSIVE read_loop(_, _, _, _, _)
read_loop(src, frame_idx, interval, max_frames, frames) ==
    IF Len(frames) >= max_frames THEN frames
    ELSE IF frame_idx >= Len(src) THEN frames
    ELSE read_loop(src, frame_idx + 1, interval, max_frames,
                   IF frame_idx % interval = 0
                   THEN Append(frames, src[frame_idx + 1])
                   ELSE frames)

\* extract_frames without the check that a frame was read
extract_frames_unchecked(v, frames_per_second, max_frames) ==
    IF ~v.opened
    THEN [exc |-> "VideoProcessingError", frames |-> <<>>, released |-> FALSE]
    ELSE IF v.crash
    THEN [exc |-> "VideoProcessingError", frames |-> <<>>, released |-> TRUE]
    ELSE LET fps == IF v.fps = 0 THEN 25 ELSE v.fps
             interval == Max(1, (fps * 10) \div Max(frames_per_second, 1))
             frames == read_loop(v.src, 0, interval, max_frames, <<>>)
         IN  [exc |-> "none", frames |-> frames, released |-> TRUE]

\* extract_frames keeping every frame it reads, whatever the frame rate
extract_frames_every_frame(v, frames_per_second, max_frames) ==
    IF ~v.opened
    THEN [exc |-> "VideoProcessingError", frames |-> <<>>, released |-> FALSE]
    ELSE IF v.crash
    THEN [exc |-> "VideoProcessingError", frames |-> <<>>, released |-> TRUE]
    ELSE LET fps == IF v.fps = 0 THEN 25 ELSE v.fps
             interval == 1
             frames == read_loop(v.src, 0, interval, max_frames, <<>>)
         IN  IF frames = <<>>
             THEN [exc |-> "NoFramesExtractedError", frames |-> <<>>,
                   released |-> TRUE]
             ELSE [exc |-> "none", frames |-> frames, released |-> TRUE]

\* extract_frames(video_path, frames_per_second, max_frames)
extract_frames(v, frames_per_second, max_frames) ==
    IF ~v.opened
    THEN [exc |-> "VideoProcessingError", frames |-> <<>>, released |-> FALSE]
    ELSE IF v.crash
    THEN [exc |-> "VideoProcessingError", frames |-> <<>>, released |-> TRUE]
    ELSE LET fps == IF v.fps = 0 THEN 25 ELSE v.fps
             interval == Max(1, (fps * 10) \div Max(frames_per_second, 1))
             frames == read_loop(v.src, 0, interval, max_frames, <<>>)
         IN  IF frames = <<>>
             THEN [exc |-> "NoFramesExtractedError", frames |-> <<>>,
                   released |-> TRUE]
             ELSE [exc |-> "none", frames |-> frames, released |-> TRUE]

----------------------------------------------------------------------------
(* backend/app/models/detector.py and _run_model_inference                 *)
(* The environment of the external model is [path, torch, load, pre,       *)
(* infer, cascade]: MODEL_WEIGHTS_PATH ("unset": empty, "blank": only      *)
(* white space, "missing": names no file, "exists"), whether torch         *)
(* imports, whether the weights load, whether preprocessing raises, what   *)
(* the forward pass gives (a float, or Raises), and whether the Haar       *)
(* cascade file loaded.                                                    *)

Raises == [k |-> "raises", v |-> 0]

\* load_detector(weights_path): the model, or None
load_detector(e) ==
    IF ~e.torch THEN "None"
    ELSE IF e.path # "exists" THEN "None"
    ELSE IF e.load = "ok" THEN "model" ELSE "None"

\* preprocess_frames(frames): a tensor, None, or an exception
preprocess_frames(frames, e) ==
    IF ~e.torch THEN "None"
    ELSE IF frames # <<>> /\ e.pre = "raises" THEN "raises"
    ELSE IF frames = <<>> THEN "None"
    ELSE "tensor"

\* _run_model_inference with 0.0 for its failure sentinel
run_model_inference_zero_sentinel(frames, e) ==
    IF ~e.torch THEN Num(0)
    ELSE IF load_detector(e) = "None" THEN Num(0)
    ELSE IF preprocess_frames(frames, e) # "tensor" THEN Num(0)
    ELSE IF e.infer.k = "raises" THEN Num(0)
    ELSE e.infer

\* _run_model_inference(frames, model_path): the score, or -1.0 on failure
run_model_inference(frames, e) ==
    IF ~e.torch THEN Num(-One)
    ELSE IF load_detector(e) = "None" THEN Num(-One)
    ELSE IF preprocess_frames(frames, e) # "tensor" THEN Num(-One)
    ELSE IF e.infer.k = "raises" THEN Num(-One)
    ELSE e.infer

----------------------------------------------------------------------------
(* The inputs                                                              *)

\* scores on a grid of 0.05, GridPad points beyond each end of [0,1]
GridScores == {Num(i * (One \div 20)) : i \in (0 - GridPad)..(20 + GridPad)}

\* the values next to the thresholds of the classifier
EdgeScores ==
    {Num(t + d) : t \in {RISK_LEVEL_LOW_THRESHOLD, CLASSIFICATION_THRESHOLD,
                         RISK_LEVEL_MEDIUM_THRESHOLD},
                  d \in {-1, 0, 1}}

Specials == {NaN, PosInf, NegInf, None, NonNumeric}

\* feature scores 0, 0.25, 0.5, 0.75, 1
FeatureGrid == {i * (One \div 4) : i \in 0..4}

FusionInputs == GridScores \cup Specials
ConfidenceInputs == GridScores \cup EdgeScores \cup Specials

ModelOutputs == {Num(0), Num(One \div 4), Num(One \div 2), Num(One), NaN, Raises}

Videos ==
    {[opened |-> FALSE, fps |-> 0, src |-> <<>>, crash |-> FALSE],
     [opened |-> TRUE, fps |-> 0, src |-> <<>>, crash |-> TRUE]}
    \cup {[opened |-> TRUE, fps |-> r, src |-> q, crash |-> FALSE] :
              r \in {0, 1, 2}, q \in InputFrameSets(MaxSourceFrames)}

ModelEnvs ==
    {[path |-> p, torch |-> TRUE, load |-> "ok", pre |-> "ok",
      infer |-> Num(0), cascade |-> c] :
          p \in {"unset", "blank", "missing"}, c \in BOOLEAN}
    \cup {[path |-> "exists", torch |-> TRUE, load |-> "ok", pre |-> "ok",
           infer |-> o, cascade |-> TRUE] : o \in ModelOutputs}
    \cup {[path |-> "exists", torch |-> FALSE, load |-> "ok", pre |-> "ok",
           infer |-> Num(One), cascade |-> TRUE],
          [path |-> "exists", torch |-> TRUE, load |-> "error", pre |-> "ok",
           infer |-> Num(One), cascade |-> TRUE],
          [path |-> "exists", torch |-> TRUE, load |-> "ok", pre |-> "raises",
           infer |-> Num(One), cascade |-> TRUE]}

NoVideo == [opened |-> FALSE, fps |-> 0, src |-> <<>>, crash |-> FALSE]
NoEnv == [path |-> "unset", torch |-> FALSE, load |-> "error", pre |-> "ok",
          infer |-> Raises, cascade |-> FALSE]
NoLoc == [frames |-> <<>>, frame_count |-> 0, released |-> FALSE,
          has_human |-> FALSE,
          heuristic_confidence |-> None, heuristic_details |-> NoDetails,
          model_confidence |-> None, detection_method |-> "unset",
          final_confidence |-> None]
NoResult == [kind |-> "none"]
NoRet == [exc |-> "none"]

Durations == 0..MaxDuration

\* the invocations of analyze_video one process serves side by side, their
\* videos and the process's model environments
Invocations == {1, 2}
NoInvocation == [pc |-> "idle", video |-> NoVideo, loc |-> NoLoc,
                 calls |-> <<>>, result |-> NoResult, overlap |-> FALSE]
ProcessFrameSets ==
    {<<FaceA>>, <<FaceA, FaceB>>, <<FaceB, FaceA, FaceB>>, <<Scenery, FaceA>>,
     <<Scenery>>}
ProcessVideos ==
    {[opened |-> FALSE, fps |-> 0, src |-> <<>>, crash |-> FALSE]}
    \cup {[opened |-> TRUE, fps |-> 1, src |-> q, crash |-> FALSE] :
              q \in ProcessFrameSets}
ProcessEnvs ==
    {[path |-> "unset", torch |-> TRUE, load |-> "ok", pre |-> "ok",
      infer |-> Num(0), cascade |-> TRUE],
     [path |-> "exists", torch |-> TRUE, load |-> "error", pre |-> "ok",
      infer |-> Num(One), cascade |-> TRUE]}
    \cup {[path |-> "exists", torch |-> TRUE, load |-> "ok", pre |-> "ok",
           infer |-> o, cascade |-> TRUE] : o \in {Num(One \div 4), Num(One)}}

\* the requests one server handles side by side, and what they upload: a
\* file name, whether reading the body works, its size class and the video
\* the bytes hold
Requests == {1, 2}
NoFile == [absent |-> TRUE]
Garbage == [opened |-> FALSE, fps |-> 0, src |-> <<>>, crash |-> FALSE]
RouteVideos ==
    {Garbage,
     [opened |-> TRUE, fps |-> 1, src |-> <<>>, crash |-> FALSE],
     [opened |-> TRUE, fps |-> 1, src |-> <<FaceA, FaceB>>, crash |-> FALSE],
     [opened |-> TRUE, fps |-> 1, src |-> <<Scenery>>, crash |-> FALSE]}
Upload(filename, read, size, content) ==
    [filename |-> filename, read |-> read, size |-> size, content |-> content]
RejectedUploads ==
    {Upload("", "ok", "ok", Garbage),
     Upload("notes.txt", "ok", "ok", Garbage),
     Upload("clip.mp4", "raises", "ok", Garbage),
     Upload("clip.mp4", "ok", "empty", Garbage),
     Upload("clip.mp4", "ok", "too_large", Garbage)}
AcceptedUploads ==
    {Upload(f, "ok", "ok", v) : f \in {"clip.mp4", "clip.mov"}, v \in RouteVideos}

\* what can go wrong unexpectedly while a request is served: the call that
\* raises and the exception it raises
NoFault == [at |-> "none", exc |-> "none"]
Faults ==
    {NoFault,
     [at |-> "write_bytes", exc |-> "OSError"],
     [at |-> "_contains_human", exc |-> "cv2.error"],
     [at |-> "heuristic_score", exc |-> "FloatingPointError"],
     [at |-> "unlink", exc |-> "OSError"]}
NoOutcome == [result |-> NoResult, origin |-> NoFault]
NoName == [uuid |-> 0, suffix |-> ""]
NoRequest == [pc |-> "idle", upload |-> Upload("", "ok", "ok", Garbage),
              fault |-> NoFault, path |-> NoName, wrote |-> FALSE,
              outcome |-> NoOutcome, status |-> 0]
FileNames == [uuid : 0..2, suffix : {".mp4", ".mov"}]
NoFiles == [n \in FileNames |-> NoFile]
RouteEnvs == {e \in ProcessEnvs : e.infer \in {Num(0), Num(One)} /\ e.load = "ok"}

----------------------------------------------------------------------------
(* Direct calls of the scoring functions.  A behaviour is one call by a     *)
(* client: of one scoring function, or of analyze_video.                   *)

CallEnsembleScore ==
    /\ pc = "idle" /\ fn = "idle"
    /\ \E h \in FusionInputs, m \in FusionInputs :
          /\ fn' = "ensemble_score"
          /\ args' = <<h, m>>
          /\ ret' = ensemble_score(h, m)
    /\ UNCHANGED <<avVars, procVars, routeVars>>

CallClassifyScore ==
    /\ pc = "idle" /\ fn = "idle"
    /\ \E c \in ConfidenceInputs :
          /\ fn' = "classify_score"
          /\ args' = <<c>>
          /\ ret' = [exc |-> "none", label |-> classify_score(c)]
    /\ UNCHANGED <<avVars, procVars, routeVars>>

CallGetRiskLevel ==
    /\ pc = "idle" /\ fn = "idle"
    /\ \E c \in ConfidenceInputs :
          /\ fn' = "get_risk_level"
          /\ args' = <<c>>
          /\ ret' = [exc |-> "none", risk |-> get_risk_level(c)]
    /\ UNCHANGED <<avVars, procVars, routeVars>>

\* the aggregation lines of heuristic_score (raw_score, final_score) on a
\* vector of feature scores
CallRawScore ==
    /\ pc = "idle" /\ fn = "idle"
    /\ \E s \in FeatureGrid, c \in FeatureGrid, o \in FeatureGrid,
          f \in FeatureGrid, e \in {0, One} :
          LET raw_score == raw_score_of(s, c, o, f, e)
          IN  /\ fn' = "raw_score"
              /\ args' = <<s, c, o, f, e>>
              /\ ret' = [exc |-> "none", raw |-> raw_score,
                         score |-> Clip(Num(raw_score), 0, One).v]
    /\ UNCHANGED <<avVars, procVars, routeVars>>

CallHeuristicScore ==
    /\ pc = "idle" /\ fn = "idle"
    /\ \E fs \in InputFrameSets(MaxFramesCfg) :
          /\ fn' = "heuristic_score"
          /\ args' = <<fs>>
          /\ ret' = heuristic_score(fs)
    /\ UNCHANGED <<avVars, procVars, routeVars>>

----------------------------------------------------------------------------
(* backend/app/services/video_analysis.py: analyze_video, step by step     *)

\* the caller hands a video to analyze_video
StartAnalysis ==
    /\ pc = "idle" /\ fn = "idle"
    /\ \E v \in Videos, e \in ModelEnvs :
          /\ video' = v
          /\ env' = e
    /\ pc' = "extract"
    /\ UNCHANGED <<fnVars, procVars, routeVars, loc, calls, result>>

Raised(e) == [kind |-> "raise", exc |-> e]

\* Step 1: util_extract_frames; its two error kinds are re-raised as they are
ExtractStep ==
    /\ pc = "extract"
    /\ LET r == extract_frames(video, FRAMES_PER_SECOND_SAMPLED, MaxFramesCfg)
       IN  IF r.exc # "none"
           THEN /\ result' = Raised(r.exc)
                /\ pc' = "done"
                /\ loc' = [loc EXCEPT !.released = r.released]
           ELSE /\ loc' = [loc EXCEPT !.frames = r.frames,
                                      !.frame_count = Len(r.frames),
                                      !.released = r.released]
                /\ pc' = "gate"
                /\ result' = result
    /\ calls' = Append(calls, "extract_frames")
    /\ UNCHANGED <<fnVars, procVars, routeVars, video, env>>

\* the short circuit taking the band of a missing score (get_risk_level of
\* None) for the band of 0.0
NoHumanResult_unscored(frame_count, t) ==
    [kind |-> "return",
     is_ai_generated |-> FALSE,
     confidence |-> 0,
     detection_method |-> "no_human",
     frame_count |-> frame_count,
     risk_level |-> get_risk_level(None),
     processing_time_seconds |-> t,
     details |-> [humans_detected |-> 0]]

\* the AnalysisResult of the no-human short circuit
NoHumanResult(frame_count, t) ==
    [kind |-> "return",
     is_ai_generated |-> FALSE,
     confidence |-> 0,
     detection_method |-> "no_human",
     frame_count |-> frame_count,
     risk_level |-> get_risk_level(Num(0)),
     processing_time_seconds |-> t,
     details |-> [humans_detected |-> 0]]

\* the human-presence check without the early return
GateStep_no_return ==
    /\ pc = "gate"
    /\ loc' = [loc EXCEPT !.has_human = contains_human(loc.frames, env.cascade)]
    /\ pc' = "heuristic"
    /\ result' = result
    /\ calls' = Append(calls, "_contains_human")
    /\ UNCHANGED <<fnVars, procVars, routeVars, video, env>>

\* the human-presence check and its early return
GateStep ==
    /\ pc = "gate"
    /\ LET has_human == contains_human(loc.frames, env.cascade)
       IN  IF ~has_human
           THEN /\ \E t \in Durations :
                      result' = NoHumanResult(loc.frame_count, t)
                /\ pc' = "done"
                /\ loc' = [loc EXCEPT !.has_human = FALSE]
                /\ calls' = calls \o <<"_contains_human", "get_risk_level">>
           ELSE /\ loc' = [loc EXCEPT !.has_human = TRUE]
                /\ pc' = "heuristic"
                /\ result' = result
                /\ calls' = Append(calls, "_contains_human")
    /\ UNCHANGED <<fnVars, procVars, routeVars, video, env>>

\* Step 2: heuristic_score; any exception but the two video errors is
\* wrapped in a VideoProcessingError
HeuristicStep ==
    /\ pc = "heuristic"
    /\ LET r == heuristic_score(loc.frames)
       IN  IF r.exc # "none"
           THEN /\ result' = Raised("VideoProcessingError")
                /\ pc' = "done"
                /\ loc' = loc
           ELSE /\ loc' = [loc EXCEPT !.heuristic_confidence = Num(r.score),
                                      !.heuristic_details = r.details]
                /\ pc' = "model"
                /\ result' = result
    /\ calls' = Append(calls, "heuristic_score")
    /\ UNCHANGED <<fnVars, procVars, routeVars, video, env>>


\* Step 3 writing model_score into the details whatever inference gave
model_stage_score_always(frames, heuristic_confidence, heuristic_details, e) ==
    LET \* (MODEL_WEIGHTS_PATH or "").strip()
        model_path == IF e.path \in {"unset", "blank"} THEN "" ELSE e.path
        heuristic_only(mc, ran) ==
            [exc |-> "none", final_confidence |-> heuristic_confidence,
             detection_method |-> "heuristic",
             details |-> heuristic_details @@
                 ("model_score" :> Round(mc.v, One, 4)),
             model_confidence |-> mc, inferred |-> ran]
    IN  IF model_path # "" /\ e.path = "exists"
        THEN LET model_confidence == run_model_inference(frames, e)
             IN  IF Leq(Num(0), model_confidence)
                 THEN LET r == ensemble_score(heuristic_confidence,
                                              model_confidence)
                      IN  IF r.exc # "none"
                          THEN [exc |-> r.exc, inferred |-> TRUE]
                          ELSE [exc |-> "none",
                                final_confidence |-> r.conf,
                                detection_method |-> r.method,
                                details |-> heuristic_details @@
                                    ("model_score" :>
                                        Round(model_confidence.v, One, 4)),
                                model_confidence |-> model_confidence,
                                inferred |-> TRUE]
                 ELSE heuristic_only(model_confidence, TRUE)
        ELSE heuristic_only(Num(-One), FALSE)

\* Step 3 of analyze_video: the optional model and the fusion.  Gives the
\* locals it assigns, or the exception ensemble_score raised.
model_stage(frames, heuristic_confidence, heuristic_details, e) ==
    LET \* (MODEL_WEIGHTS_PATH or "").strip()
        model_path == IF e.path \in {"unset", "blank"} THEN "" ELSE e.path
        heuristic_only(mc, ran) ==
            [exc |-> "none", final_confidence |-> heuristic_confidence,
             detection_method |-> "heuristic", details |-> heuristic_details,
             model_confidence |-> mc, inferred |-> ran]
    IN  IF model_path # "" /\ e.path = "exists"
        THEN LET model_confidence == run_model_inference(frames, e)
             IN  IF Leq(Num(0), model_confidence)
                 THEN LET r == ensemble_score(heuristic_confidence,
                                              model_confidence)
                      IN  IF r.exc # "none"
                          THEN [exc |-> r.exc, inferred |-> TRUE]
                          ELSE [exc |-> "none",
                                final_confidence |-> r.conf,
                                detection_method |-> r.method,
                                details |-> heuristic_details @@
                                    ("model_score" :>
                                        Round(model_confidence.v, One, 4)),
                                model_confidence |-> model_confidence,
                                inferred |-> TRUE]
                 ELSE heuristic_only(model_confidence, TRUE)
        ELSE heuristic_only(Num(-One), FALSE)

ModelStep ==
    /\ pc = "model"
    /\ LET r == model_stage(loc.frames, loc.heuristic_confidence,
                            loc.heuristic_details, env)
       IN  /\ IF r.exc # "none"
              THEN /\ result' = Raised("VideoProcessingError")
                   /\ pc' = "done"
                   /\ loc' = loc
              ELSE /\ loc' = [loc EXCEPT
                                 !.final_confidence = r.final_confidence,
                                 !.detection_method = r.detection_method,
                                 !.heuristic_details = r.details,
                                 !.model_confidence = r.model_confidence]
                   /\ pc' = "classify"
                   /\ result' = result
           /\ calls' = calls
                  \o (IF r.inferred THEN <<"_run_model_inference">> ELSE <<>>)
                  \o (IF r.inferred /\ Leq(Num(0), run_model_inference(loc.frames, env))
                      THEN <<"ensemble_score">> ELSE <<>>)
    /\ UNCHANGED <<fnVars, procVars, routeVars, video, env>>

\* the label with the comparison turned round
is_ai_generated_below(final_confidence) ==
    Leq(final_confidence, Num(CLASSIFICATION_THRESHOLD))

\* Step 4 of analyze_video: the label
is_ai_generated_of(final_confidence) ==
    Leq(Num(CLASSIFICATION_THRESHOLD), final_confidence)

\* the result carrying final_confidence as it is, unrounded
ScoredResult_unrounded(l, confidence, t) ==
    [kind |-> "return",
     is_ai_generated |-> is_ai_generated_of(l.final_confidence),
     confidence |-> l.final_confidence.v,
     detection_method |-> l.detection_method,
     frame_count |-> l.frame_count,
     risk_level |-> get_risk_level(l.final_confidence),
     processing_time_seconds |-> t,
     details |-> l.heuristic_details]

\* the result with the processing time also written into the details
ScoredResult_timed_details(l, confidence, t) ==
    [kind |-> "return",
     is_ai_generated |-> is_ai_generated_of(l.final_confidence),
     confidence |-> confidence,
     detection_method |-> l.detection_method,
     frame_count |-> l.frame_count,
     risk_level |-> get_risk_level(l.final_confidence),
     processing_time_seconds |-> t,
     details |-> l.heuristic_details @@ ("processing_time" :> t)]

\* the AnalysisResult of a scored video; confidence is round(final, 2)
ScoredResult(l, confidence, t) ==
    [kind |-> "return",
     is_ai_generated |-> is_ai_generated_of(l.final_confidence),
     confidence |-> confidence,
     detection_method |-> l.detection_method,
     frame_count |-> l.frame_count,
     risk_level |-> get_risk_level(l.final_confidence),
     processing_time_seconds |-> t,
     details |-> l.heuristic_details]

\* Steps 4 and 5: classify, time, and return
ClassifyStep ==
    /\ pc = "classify"
    /\ \E t \in Durations,
          c \in RoundOutcomes(loc.final_confidence.v, One, 2) :
          result' = ScoredResult(loc, c, t)
    /\ pc' = "done"
    /\ calls' = Append(calls, "get_risk_level")
    /\ UNCHANGED <<fnVars, procVars, routeVars, video, env, loc>>

----------------------------------------------------------------------------
Init ==
    /\ fn = "idle" /\ args = <<>> /\ ret = NoRet
    /\ pc = "idle"
    /\ video = NoVideo /\ env = NoEnv /\ loc = NoLoc
    /\ calls = <<>> /\ result = NoResult
    /\ invs = [i \in Invocations |-> NoInvocation]
    /\ loads = 0
    /\ reqs = [i \in Requests |-> NoRequest]
    /\ upload_dir = NoFiles
    /\ issued = {}

Next ==
    \/ CallEnsembleScore
    \/ CallClassifyScore
    \/ CallGetRiskLevel
    \/ CallHeuristicScore
    \/ CallRawScore
    \/ StartAnalysis
    \/ ExtractStep
    \/ GateStep
    \/ HeuristicStep
    \/ ModelStep
    \/ ClassifyStep

Spec == Init /\ [][Next]_vars

----------------------------------------------------------------------------
(* One process serving several analyze_video invocations at once (threads  *)
(* or tasks): each invocation has its own locals, the model environment    *)
(* is the process's, and _run_model_inference calls load_detector anew in  *)
(* every invocation.                                                       *)

Busy(i) == invs[i].pc \notin {"idle", "done"}

\* the locals of invocation i, as if kept in one module-level slot
locals_shared(i) == invs[1].loc

\* the locals of invocation i: each call of analyze_video has its own
locals(i) == invs[i].loc

\* invocation i moves to the state r; overlap records that another
\* invocation was under way when it did
Advance(i, r) ==
    invs' = [invs EXCEPT ![i] =
                [r EXCEPT !.overlap =
                     invs[i].overlap \/ \E j \in Invocations \ {i} : Busy(j)]]

InvStart(i) ==
    /\ invs[i].pc = "idle"
    /\ \E v \in ProcessVideos :
          Advance(i, [invs[i] EXCEPT !.pc = "extract", !.video = v])
    /\ UNCHANGED <<fnVars, avVars, loads, routeVars>>

InvExtract(i) ==
    /\ invs[i].pc = "extract"
    /\ LET r == extract_frames(invs[i].video, FRAMES_PER_SECOND_SAMPLED,
                               MaxFramesCfg)
           called == Append(invs[i].calls, "extract_frames")
       IN  IF r.exc # "none"
           THEN Advance(i, [invs[i] EXCEPT
                               !.pc = "done",
                               !.loc = [locals(i) EXCEPT !.released = r.released],
                               !.result = Raised(r.exc),
                               !.calls = called])
           ELSE Advance(i, [invs[i] EXCEPT
                               !.pc = "gate",
                               !.loc = [locals(i) EXCEPT
                                           !.frames = r.frames,
                                           !.frame_count = Len(r.frames),
                                           !.released = r.released],
                               !.calls = called])
    /\ UNCHANGED <<fnVars, avVars, loads, routeVars>>

InvGate(i) ==
    /\ invs[i].pc = "gate"
    /\ LET has_human == contains_human(locals(i).frames, env.cascade)
       IN  IF ~has_human
           THEN \E t \in Durations :
                    Advance(i, [invs[i] EXCEPT
                                   !.pc = "done",
                                   !.loc = [locals(i) EXCEPT !.has_human = FALSE],
                                   !.result = NoHumanResult(locals(i).frame_count, t),
                                   !.calls = @ \o <<"_contains_human",
                                                    "get_risk_level">>])
           ELSE Advance(i, [invs[i] EXCEPT
                               !.pc = "heuristic",
                               !.loc = [locals(i) EXCEPT !.has_human = TRUE],
                               !.calls = Append(@, "_contains_human")])
    /\ UNCHANGED <<fnVars, avVars, loads, routeVars>>

InvHeuristic(i) ==
    /\ invs[i].pc = "heuristic"
    /\ LET r == heuristic_score(locals(i).frames)
           called == Append(invs[i].calls, "heuristic_score")
       IN  IF r.exc # "none"
           THEN Advance(i, [invs[i] EXCEPT
                               !.pc = "done",
                               !.result = Raised("VideoProcessingError"),
                               !.calls = called])
           ELSE Advance(i, [invs[i] EXCEPT
                               !.pc = "model",
                               !.loc = [locals(i) EXCEPT
                                           !.heuristic_confidence = Num(r.score),
                                           !.heuristic_details = r.details],
                               !.calls = called])
    /\ UNCHANGED <<fnVars, avVars, loads, routeVars>>

\* Step 3; load_detector builds a model and reads the weights file each
\* time it is reached with torch and an existing file
InvModel(i) ==
    /\ invs[i].pc = "model"
    /\ LET l == locals(i)
           r == model_stage(l.frames, l.heuristic_confidence,
                            l.heuristic_details, env)
           called == invs[i].calls
                         \o (IF r.inferred THEN <<"_run_model_inference">>
                             ELSE <<>>)
       IN  /\ IF r.exc # "none"
              THEN Advance(i, [invs[i] EXCEPT
                                  !.pc = "done",
                                  !.result = Raised("VideoProcessingError"),
                                  !.calls = called])
              ELSE Advance(i, [invs[i] EXCEPT
                                  !.pc = "classify",
                                  !.loc = [l EXCEPT
                                      !.final_confidence = r.final_confidence,
                                      !.detection_method = r.detection_method,
                                      !.heuristic_details = r.details,
                                      !.model_confidence = r.model_confidence],
                                  !.calls = called])
           /\ loads' = IF r.inferred /\ load_detector(env) = "model"
                       THEN loads + 1 ELSE loads
    /\ UNCHANGED <<fnVars, avVars, routeVars>>

\* round() is a function of the float: an invocation that rounds the value
\* another invocation has rounded gets the same answer
RoundChoices(i) ==
    LET x == locals(i).final_confidence
        peers == {j \in Invocations \ {i} :
                     /\ invs[j].pc = "done"
                     /\ invs[j].result.kind = "return"
                     /\ invs[j].result.detection_method # "no_human"
                     /\ invs[j].loc.final_confidence = x}
    IN  IF peers = {} THEN RoundOutcomes(x.v, One, 2)
        ELSE {invs[j].result.confidence : j \in peers}

InvClassify(i) ==
    /\ invs[i].pc = "classify"
    /\ \E t \in Durations, c \in RoundChoices(i) :
          Advance(i, [invs[i] EXCEPT
                         !.pc = "done",
                         !.result = ScoredResult(locals(i), c, t),
                         !.calls = Append(@, "get_risk_level")])
    /\ UNCHANGED <<fnVars, avVars, loads, routeVars>>

ProcessInit ==
    /\ fn = "idle" /\ args = <<>> /\ ret = NoRet
    /\ pc = "idle"
    /\ video = NoVideo /\ loc = NoLoc
    /\ calls = <<>> /\ result = NoResult
    /\ env \in ProcessEnvs
    /\ invs = [i \in Invocations |-> NoInvocation]
    /\ loads = 0
    /\ reqs = [i \in Requests |-> NoRequest]
    /\ upload_dir = NoFiles
    /\ issued = {}

ProcessNext ==
    \E i \in Invocations :
        \/ InvStart(i)
        \/ InvExtract(i)
        \/ InvGate(i)
        \/ InvHeuristic(i)
        \/ InvModel(i)
        \/ InvClassify(i)

ProcessSpec == ProcessInit /\ [][ProcessNext]_vars

\* analyze_video run alone on video v under environment e: every result it
\* can give (over the processing time and the rounding of a decimal tie)
analyze_alone(v, e) ==
    LET x == extract_frames(v, FRAMES_PER_SECOND_SAMPLED, MaxFramesCfg)
    IN  IF x.exc # "none" THEN {Raised(x.exc)}
        ELSE IF ~contains_human(x.frames, e.cascade)
        THEN {NoHumanResult(Len(x.frames), t) : t \in Durations}
        ELSE LET h == heuristic_score(x.frames)
             IN  IF h.exc # "none" THEN {Raised("VideoProcessingError")}
                 ELSE LET m == model_stage(x.frames, Num(h.score), h.details, e)
                      IN  IF m.exc # "none"
                          THEN {Raised("VideoProcessingError")}
                          ELSE LET l == [NoLoc EXCEPT
                                            !.frames = x.frames,
                                            !.frame_count = Len(x.frames),
                                            !.released = x.released,
                                            !.has_human = TRUE,
                                            !.heuristic_confidence = Num(h.score),
                                            !.heuristic_details = m.details,
                                            !.model_confidence = m.model_confidence,
                                            !.detection_method = m.detection_method,
                                            !.final_confidence = m.final_confidence]
                               IN  {ScoredResult(l, c, t) :
                                        c \in RoundOutcomes(m.final_confidence.v, One, 2),
                                        t \in Durations}

----------------------------------------------------------------------------
(* backend/app/routes/analyze.py: POST /api/analyze.  Each request checks  *)
(* the upload, writes it to UPLOAD_DIR under a uuid4 name, runs            *)
(* analyze_video on that file, maps the outcome to an HTTP status, and     *)
(* unlinks the file in its finally block.                                  *)

\* the except clauses of analyze_video: the two video errors are re-raised
\* as they are, and everything else leaves as the exception it is
analyze_video_handler_passes(exc) == exc

\* the except clauses of analyze_video: the two video errors are re-raised
\* as they are, any other Exception is wrapped in a VideoProcessingError
analyze_video_handler(exc) ==
    IF exc \in {"VideoProcessingError", "NoFramesExtractedError"} THEN exc
    ELSE "VideoProcessingError"

\* analyze_video on the file holding video v, when the call fault.at raises
\* fault.exc: each outcome is the result or exception that leaves
\* analyze_video, with the call and exception it began with
analyze_video_outcomes(v, e, fault) ==
    LET x == extract_frames(v, FRAMES_PER_SECOND_SAMPLED, MaxFramesCfg)
        escaped(at, exc) ==
            {[result |-> Raised(analyze_video_handler(exc)),
              origin |-> [at |-> at, exc |-> exc]]}
    IN  IF x.exc # "none" THEN escaped("extract_frames", x.exc)
        ELSE IF fault.at = "_contains_human" THEN escaped(fault.at, fault.exc)
        ELSE IF contains_human(x.frames, e.cascade) /\ fault.at = "heuristic_score"
        THEN escaped(fault.at, fault.exc)
        ELSE {[result |-> r, origin |-> NoFault] : r \in analyze_alone(v, e)}

\* the route's status for what analyze_video did: 200 with the response,
\* 400 for the two video errors, 500 for any other exception
route_status(res) ==
    IF res.kind = "return" THEN 200
    ELSE IF res.exc \in {"VideoProcessingError", "NoFramesExtractedError"}
    THEN 400
    ELSE 500

\* the checks made before anything is written: 400, or 0 to go on
validate(u) ==
    IF u.filename = "" THEN 400
    ELSE IF u.filename \notin {"clip.mp4", "clip.mov"} THEN 400
    ELSE IF u.read = "raises" THEN 400
    ELSE IF u.size = "empty" THEN 400
    ELSE IF u.size = "too_large" THEN 400
    ELSE 0

\* Path(video.filename).suffix or ".mp4"
suffix_of(filename) == IF filename = "clip.mov" THEN ".mov" ELSE ".mp4"

\* the temporary name without the uuid: the suffix alone tells files apart
safe_name_no_uuid(u, used) == [uuid |-> 0, suffix |-> suffix_of(u.filename)]

\* safe_name = f"{uuid.uuid4().hex}{suffix}": uuid4 gives a value it has not
\* given before
safe_name(u, used) ==
    [uuid |-> CHOOSE n \in 1..(Cardinality(used) + 1) : n \notin used,
     suffix |-> suffix_of(u.filename)]

RouteStart(i) ==
    /\ reqs[i].pc = "idle"
    /\ \E u \in RejectedUploads \cup AcceptedUploads, f \in Faults :
          /\ validate(u) # 0 => f = NoFault
          /\ reqs' = [reqs EXCEPT ![i] =
                 IF validate(u) # 0
                 THEN [@ EXCEPT !.pc = "finished", !.upload = u,
                                !.status = validate(u)]
                 ELSE [@ EXCEPT !.pc = "write", !.upload = u, !.fault = f]]
    /\ UNCHANGED <<fnVars, avVars, procVars, upload_dir, issued>>

\* file_path.write_bytes(content); when it raises, the file may be there,
\* cut short, and the route answers 500
RouteWrite(i) ==
    /\ reqs[i].pc = "write"
    /\ LET name == safe_name(reqs[i].upload, issued)
       IN  /\ issued' = issued \cup {name.uuid}
           /\ IF reqs[i].fault.at = "write_bytes"
              THEN /\ \E left \in {NoFile, Garbage} :
                         upload_dir' = [upload_dir EXCEPT ![name] = left]
                   /\ reqs' = [reqs EXCEPT ![i] =
                          [@ EXCEPT !.pc = "cleanup", !.path = name,
                                    !.status = 500]]
              ELSE /\ upload_dir' = [upload_dir EXCEPT ![name] =
                                        reqs[i].upload.content]
                   /\ reqs' = [reqs EXCEPT ![i] =
                          [@ EXCEPT !.pc = "analyze", !.path = name,
                                    !.wrote = TRUE]]
    /\ UNCHANGED <<fnVars, avVars, procVars>>

\* analyze_video(file_path) and the answer built from it
RouteAnalyze(i) ==
    /\ reqs[i].pc = "analyze"
    /\ LET file == upload_dir[reqs[i].path]
           v == IF file = NoFile THEN Garbage ELSE file
       IN  \E o \in analyze_video_outcomes(v, env, reqs[i].fault) :
               reqs' = [reqs EXCEPT ![i] =
                   [@ EXCEPT !.pc = "cleanup", !.outcome = o,
                             !.status = route_status(o.result)]]
    /\ UNCHANGED <<fnVars, avVars, procVars, upload_dir, issued>>

\* finally: if file_path.exists(), unlink it; an OSError is logged and the
\* file stays
RouteCleanup(i) ==
    /\ reqs[i].pc = "cleanup"
    /\ upload_dir' =
           IF upload_dir[reqs[i].path] # NoFile /\ reqs[i].fault.at # "unlink"
           THEN [upload_dir EXCEPT ![reqs[i].path] = NoFile]
           ELSE upload_dir
    /\ reqs' = [reqs EXCEPT ![i] = [@ EXCEPT !.pc = "finished"]]
    /\ UNCHANGED <<fnVars, avVars, procVars, issued>>

RouteInit ==
    /\ fn = "idle" /\ args = <<>> /\ ret = NoRet
    /\ pc = "idle"
    /\ video = NoVideo /\ loc = NoLoc
    /\ calls = <<>> /\ result = NoResult
    /\ env \in RouteEnvs
    /\ invs = [i \in Invocations |-> NoInvocation]
    /\ loads = 0
    /\ reqs = [i \in Requests |-> NoRequest]
    /\ upload_dir = NoFiles
    /\ issued = {}

RouteNext ==
    \E i \in Requests :
        \/ RouteStart(i)
        \/ RouteWrite(i)
        \/ RouteAnalyze(i)
        \/ RouteCleanup(i)

RouteSpec == RouteInit /\ [][RouteNext]_vars

----------------------------------------------------------------------------
(* Properties                                                              *)

Returned == pc = "done" /\ result.kind = "return"
GateRan == \E i \in 1..Len(calls) : calls[i] = "_contains_human"
InUnit(x) == x.k = "num" /\ 0 <= x.v /\ x.v <= One
FiniteNumber(x) == x.k = "num"

\* C1: when the human-presence check returns false, analyze_video returns
\* is_ai_generated = False, confidence = 0.0, detection_method = "no_human",
\* risk_level = "low" and details = {"humans_detected": 0}, whatever the
\* frames are and whether or not a model is configured.
C1_NoHumanShortCircuit ==
    (pc = "done" /\ GateRan /\ ~loc.has_human) =>
        /\ result.kind = "return"
        /\ result.is_ai_generated = FALSE
        /\ result.confidence = 0
        /\ result.detection_method = "no_human"
        /\ result.risk_level = "low"
        /\ result.details = [humans_detected |-> 0]

\* a video with textured frames and no face, a model being configured
C1_Witness ==
    /\ pc = "done" /\ GateRan /\ ~loc.has_human
    /\ env.path = "exists" /\ env.infer = Num(One)
    /\ Len(loc.frames) >= 2
    /\ \E i \in 1..Len(loc.frames) : loc.frames[i].lap > 0
    /\ result.kind = "return"

\* the degradation conditions of the external model
Degraded(e) ==
    \/ e.path \in {"unset", "blank", "missing"}
    \/ ~e.torch
    \/ e.load = "error"
    \/ e.pre = "raises"
    \/ e.infer.k \in {"raises", "nan"}

\* C2: every degradation condition of the external model (weights path unset
\* or blank, file missing, load failure, preprocessing failure, inference
\* raising, -1.0 sentinel or NaN) ends, without an exception, in a result
\* tagged "heuristic" whose confidence is the rounded heuristic score.
C2_DegradationFallsBack ==
    (pc = "done" /\ GateRan /\ loc.has_human /\ Degraded(env)) =>
        /\ result.kind = "return"
        /\ result.detection_method = "heuristic"
        /\ loc.heuristic_confidence.k = "num"
        /\ result.confidence
               \in RoundOutcomes(loc.heuristic_confidence.v, One, 2)

\* the weights file exists and the forward pass gives NaN
C2_Witness ==
    /\ pc = "done" /\ loc.has_human
    /\ env.path = "exists" /\ env.torch /\ env.load = "ok" /\ env.pre = "ok"
    /\ env.infer = NaN
    /\ result.kind = "return" /\ result.detection_method = "heuristic"
    /\ result.confidence > 0

\* C3: for h and m in [0,1], ensemble_score(h, m) returns
\* (0.4*h + 0.6*m, "ensemble"), a confidence within [0,1]; in particular
\* ensemble_score(0.8, 0.8) = (0.8, "ensemble").
C3_EnsembleWeights ==
    (fn = "ensemble_score" /\ InUnit(args[1]) /\ InUnit(args[2])) =>
        /\ ret.exc = "none"
        /\ ret.method = "ensemble"
        /\ ret.conf.k = "num"
        /\ 10 * ret.conf.v = 4 * args[1].v + 6 * args[2].v
        /\ 0 <= ret.conf.v /\ ret.conf.v <= One
        /\ (args = <<Num((8 * One) \div 10), Num((8 * One) \div 10)>>
               => ret.conf = Num((8 * One) \div 10))

C3_Witness ==
    /\ fn = "ensemble_score"
    /\ args = <<Num((2 * One) \div 10), Num((8 * One) \div 10)>>
    /\ ret.method = "ensemble"
    /\ ret.conf = Num((56 * One) \div 100)

\* C4: for h in [0,1], ensemble_score(h, None) returns exactly
\* (h, "heuristic").
C4_NoModelPassThrough ==
    (fn = "ensemble_score" /\ InUnit(args[1]) /\ args[2] = None) =>
        /\ ret.exc = "none"
        /\ ret.conf = args[1]
        /\ ret.method = "heuristic"

C4_Witness ==
    /\ fn = "ensemble_score"
    /\ args = <<Num((35 * One) \div 100), None>>
    /\ ret.method = "heuristic"

\* C5: ensemble_score uses a model score only if it is a finite number
\* within [0,1]; for any other model value (None, NaN, infinite, below 0,
\* above 1, non-numeric) the result is that of ensemble_score(h, None): the
\* value is not clamped and used and changes neither confidence nor method.
C5_InvalidModelIgnored ==
    fn = "ensemble_score" =>
        /\ (ret.exc = "none" /\ ret.method = "ensemble") => InUnit(args[2])
        /\ ~InUnit(args[2]) =>
              /\ ret = ensemble_score(args[1], None)
              /\ ret.exc = "none" =>
                    /\ ret.method = "heuristic"
                    /\ ret.conf = Clip(args[1], 0, One)

\* a model score above 1
C5_Witness ==
    /\ fn = "ensemble_score"
    /\ args = <<Num(One \div 2), Num(One + One \div 20)>>
    /\ ret.method = "heuristic"
    /\ ret.conf = Num(One \div 2)

C7_LabelThreshold ==
    /\ (fn = "classify_score" /\ FiniteNumber(args[1])) =>
           (ret.label <=> 2 * args[1].v >= One)
    /\ (Returned /\ result.detection_method # "no_human") =>
           (result.is_ai_generated <=> 2 * loc.final_confidence.v >= One)
    /\ (Returned /\ result.detection_method = "no_human") =>
           (result.is_ai_generated <=> 2 * result.confidence >= One)

C7_Witness ==
    /\ fn = "classify_score"
    /\ args = <<Num(One \div 2)>>
    /\ ret.label = TRUE

\* analyze_video labelling a final confidence of exactly 0.5
C7_WitnessAnalysis ==
    /\ Returned
    /\ loc.final_confidence = Num(One \div 2)
    /\ result.is_ai_generated = TRUE

\* C8: ensemble_score rejects a heuristic score that is not a finite number
\* (NaN, +infinity, -infinity, a non-number) with a validation error.
C8_NonFiniteHeuristicRejected ==
    (fn = "ensemble_score" /\ ~FiniteNumber(args[1])) =>
        ret.exc = "ValueError"

\* C9: on an invalid confidence (NaN or a non-number) get_risk_level returns
\* "medium" and classify_score returns False; neither raises.
C9_InvalidConfidenceDefaults ==
    /\ (fn = "get_risk_level" /\ args[1].k \in {"nan", "str", "none"}) =>
           (ret.exc = "none" /\ ret.risk = "medium")
    /\ (fn = "classify_score" /\ args[1].k \in {"nan", "str", "none"}) =>
           (ret.exc = "none" /\ ret.label = FALSE)

C9_Witness ==
    /\ fn = "get_risk_level"
    /\ args = <<NaN>>
    /\ ret.risk = "medium"

\* the clip of 0.35*sharpness + 0.25*compression + 0.20*flow + 0.20*frequency
WeightedFour(d) ==
    LET sum == (35 * d.sharpness_score) \div 100
                 + (25 * d.compression_score) \div 100
                 + (20 * d.optical_flow_score) \div 100
                 + (20 * d.frequency_score) \div 100
    IN  Min(One, Max(0, sum))

\* C10: for a non-empty frame set the heuristic probability is
\* clip(0.35*sharpness_score + 0.25*compression_score
\*      + 0.20*optical_flow_score + 0.20*frequency_score, 0, 1),
\* no other term contributing.
C10_HeuristicWeightedSum ==
    /\ (fn = "heuristic_score" /\ args[1] # <<>>) =>
           (ret.exc = "none" /\ ret.score = WeightedFour(ret.details))
    /\ (pc \in {"model", "classify", "done"} /\ loc.has_human) =>
           loc.heuristic_confidence = Num(WeightedFour(loc.heuristic_details))

\* a frame set whose entropy score is not 0 and whose four features all count
C10_Witness ==
    /\ fn = "heuristic_score"
    /\ Len(args[1]) >= 2
    /\ ret.exc = "none"
    /\ ret.details.entropy_score > 0
    /\ ret.details.sharpness_score > 0
    /\ ret.details.compression_score > 0
    /\ ret.details.optical_flow_score > 0
    /\ ret.details.frequency_score > 0
    /\ ret.score > 0


\* C11: the four heuristic weights sum to exactly 1.0, and for every
\* combination of the four feature scores in [0,1] the raw weighted sum
\* already lies in [0,1], so the final clip never changes the value.
C11_RawScoreInUnit ==
    /\ HEURISTIC_WEIGHT_SHARPNESS + HEURISTIC_WEIGHT_COMPRESSION
           + HEURISTIC_WEIGHT_OPTICAL_FLOW + HEURISTIC_WEIGHT_FREQUENCY = One
    /\ (fn = "raw_score" /\ \A i \in 1..4 : 0 <= args[i] /\ args[i] <= One) =>
           /\ 0 <= ret.raw /\ ret.raw <= One
           /\ ret.score = ret.raw

\* the four features at 1: the raw sum reaches 1 and is not clipped
C11_Witness ==
    /\ fn = "raw_score"
    /\ \A i \in 1..4 : args[i] = One
    /\ ret.raw = One /\ ret.score = One

\* the frames fs with their histogram entropies replaced, in every way
EntropyLevels == {0, 3 * RawOne, 6 * RawOne}
Retinted(fs) ==
    {[i \in 1..Len(fs) |-> [fs[i] EXCEPT !.ent = es[i]]] :
         es \in [1..Len(fs) -> EntropyLevels]}

SameFourScores(d1, d2) ==
    /\ d1.sharpness_score = d2.sharpness_score
    /\ d1.compression_score = d2.compression_score
    /\ d1.optical_flow_score = d2.optical_flow_score
    /\ d1.frequency_score = d2.frequency_score

\* C12: the colour-entropy score is always computed and present in details
\* as entropy_score, and has no influence on the heuristic probability: two
\* frame sets with equal sharpness, compression, temporal-motion and
\* frequency scores get the same heuristic score whatever their entropy
\* scores are.
C12_EntropyReportedNotWeighted ==
    /\ (fn = "heuristic_score" /\ ret.exc = "none") =>
           /\ "entropy_score" \in DOMAIN ret.details
           /\ ret.details.entropy_score = entropy_score_of(args[1])
           /\ \A fs2 \in (InputFrameSets(MaxFramesCfg) \ {<<>>}) \cup Retinted(args[1]) :
                 LET r2 == heuristic_score(fs2)
                 IN  SameFourScores(r2.details, ret.details) =>
                         r2.score = ret.score
    /\ (Returned /\ result.detection_method # "no_human") =>
           "entropy_score" \in DOMAIN result.details

\* a frame set with a positive entropy score, and the same frames with one
\* entropy throughout: the entropy scores differ, the four others do not
C12_Witness ==
    /\ fn = "heuristic_score" /\ ret.exc = "none"
    /\ ret.details.entropy_score > 0
    /\ ret.score > 0
    /\ \E fs2 \in Retinted(args[1]) :
          LET r2 == heuristic_score(fs2)
          IN  /\ r2.details.entropy_score = 0
              /\ SameFourScores(r2.details, ret.details)


\* two or more copies of one constant-colour frame
IsConstantRun(frames) ==
    /\ Len(frames) >= 2
    /\ frames[1] \in ConstantColour
    /\ \A i \in 1..Len(frames) : frames[i] = frames[1]

\* no external model can be loaded: torch is missing or load_detector
\* returns None
NoModelAvailable(e) == ~e.torch \/ load_detector(e) = "None"

\* C13 as stated: for N >= 2 identical constant-colour frames and no model,
\* the pipeline yields sharpness 0, compression 0, temporal 0.25, frequency
\* 0.75, heuristic 0.20 and a final result of confidence 0.20, method
\* "heuristic", risk "low", is_ai_generated False.
C13_ConstantFramesScoredResult ==
    (pc = "done" /\ IsConstantRun(loc.frames) /\ NoModelAvailable(env)) =>
        /\ result.kind = "return"
        /\ result.confidence = One \div 5
        /\ result.detection_method = "heuristic"
        /\ result.risk_level = "low"
        /\ result.is_ai_generated = FALSE

\* C13, amended: heuristic_score on N >= 2 identical constant-colour frames
\* gives sharpness 0, compression 0, temporal 0.25, frequency 0.75 and the
\* score 0.20, which without a model classifies as 0.20, "heuristic", "low",
\* not AI-generated; analyze_video returns that result only when the face
\* gate passes, and otherwise (no face is found in the frames) returns the
\* no_human result with confidence 0.0.
C13_ConstantFramesGated ==
    /\ (fn = "heuristic_score" /\ IsConstantRun(args[1])) =>
           /\ ret.exc = "none"
           /\ ret.details.sharpness_score = 0
           /\ ret.details.compression_score = 0
           /\ ret.details.optical_flow_score = One \div 4
           /\ ret.details.frequency_score = (3 * One) \div 4
           /\ ret.score = One \div 5
           /\ ensemble_score(Num(ret.score), None)
                  = [exc |-> "none", conf |-> Num(One \div 5), method |-> "heuristic"]
           /\ get_risk_level(Num(ret.score)) = "low"
           /\ classify_score(Num(ret.score)) = FALSE
    /\ (pc = "done" /\ IsConstantRun(loc.frames) /\ NoModelAvailable(env)) =>
           /\ result.kind = "return"
           /\ result.risk_level = "low"
           /\ result.is_ai_generated = FALSE
           /\ IF loc.has_human
              THEN /\ result.confidence = One \div 5
                   /\ result.detection_method = "heuristic"
              ELSE /\ result.confidence = 0
                   /\ result.detection_method = "no_human"
                   /\ \A i \in 1..Len(calls) : calls[i] # "heuristic_score"

\* a video of one grey frame repeated, the classifier loaded, no model: the
\* answer is the no_human result
C13_Witness ==
    /\ pc = "done" /\ IsConstantRun(loc.frames) /\ NoModelAvailable(env)
    /\ loc.frames[1] = FlatGrey
    /\ env.cascade
    /\ result.kind = "return"
    /\ result.detection_method = "no_human"
    /\ result.confidence = 0

\* heuristic_score called on the same grey frames
C13_WitnessScore ==
    /\ fn = "heuristic_score" /\ IsConstantRun(args[1])
    /\ args[1][1] = FlatGrey
    /\ ret.score = One \div 5


\* the stepwise analyze_video gives exactly the results of analyze_alone
AloneAgreesWithSteps == pc = "done" => result \in analyze_alone(video, env)

\* two results that agree in every field but the processing time
SameButTime(r1, r2) ==
    /\ r1.kind = r2.kind
    /\ r1.kind = "return" =>
           /\ r1.is_ai_generated = r2.is_ai_generated
           /\ r1.confidence = r2.confidence
           /\ r1.detection_method = r2.detection_method
           /\ r1.frame_count = r2.frame_count
           /\ r1.risk_level = r2.risk_level
           /\ r1.details = r2.details
    /\ r1.kind = "raise" => r1.exc = r2.exc

BothDoneOnSameVideo ==
    /\ \A i \in Invocations : invs[i].pc = "done"
    /\ invs[1].video = invs[2].video

\* C14 as stated: given the same frame set and the same (or absent) model,
\* two invocations of the analysis produce identical AnalysisResult values
\* in every field.
C14_IdenticalResults ==
    (BothDoneOnSameVideo /\ invs[1].result.kind = "return") =>
        invs[1].result = invs[2].result

\* C14, amended: given the same frame set and the same (or absent) model,
\* two invocations produce AnalysisResult values identical in every field
\* except processing_time_seconds, which is the measured wall-clock time of
\* each invocation.
C14_IdenticalButTime ==
    BothDoneOnSameVideo => SameButTime(invs[1].result, invs[2].result)

\* two scored results for one video and one model, with different
\* processing times
C14_Witness ==
    /\ BothDoneOnSameVideo
    /\ invs[1].result.kind = "return"
    /\ invs[1].result.detection_method = "ensemble"
    /\ invs[1].result.processing_time_seconds
           # invs[2].result.processing_time_seconds
    /\ SameButTime(invs[1].result, invs[2].result)


ScoringCalls == {"heuristic_score", "_run_model_inference", "ensemble_score"}

\* C15: the presence check runs before any scoring: in every execution of
\* analyze_video the call to _contains_human happens before heuristic_score
\* and before model inference, and when it returns false neither
\* heuristic_score nor _run_model_inference is ever invoked.
C15_GateBeforeScoring ==
    /\ \A k \in 1..Len(calls) :
          calls[k] \in ScoringCalls =>
              \E j \in 1..(k - 1) : calls[j] = "_contains_human"
    /\ (GateRan /\ ~loc.has_human) =>
           /\ \A k \in 1..Len(calls) : calls[k] \notin ScoringCalls
           /\ pc = "done"
    /\ pc \in {"heuristic", "model", "classify"} => GateRan /\ loc.has_human

\* a run through the gate, the heuristic and the model, in that order
C15_Witness ==
    /\ pc = "done"
    /\ Len(calls) >= 4
    /\ calls[2] = "_contains_human"
    /\ calls[3] = "heuristic_score"
    /\ calls[4] = "_run_model_inference"

\* a run the gate ended: no scoring call was made
C15_WitnessNoHuman ==
    /\ pc = "done" /\ GateRan /\ ~loc.has_human
    /\ calls = <<"extract_frames", "_contains_human", "get_risk_level">>


\* the verdict of a result: label, confidence, method, risk level, details
\* (or the exception raised)
Verdict(r) ==
    IF r.kind = "return"
    THEN [is_ai_generated |-> r.is_ai_generated,
          confidence |-> r.confidence,
          detection_method |-> r.detection_method,
          risk_level |-> r.risk_level,
          details |-> r.details]
    ELSE [exc |-> r.exc]

\* C16: concurrent analysis invocations do not interfere: under any
\* interleaving of two invocations on different frame sets, each returns the
\* verdict (label, confidence, method, risk level, details) it would return
\* if run alone.
C16_NoInterference ==
    \A i \in Invocations :
        invs[i].pc = "done" =>
            Verdict(invs[i].result)
                \in {Verdict(a) : a \in analyze_alone(invs[i].video, env)}

\* two invocations on different frame sets, each taking steps while the
\* other was under way, ended with different verdicts
C16_Witness ==
    /\ \A i \in Invocations :
          /\ invs[i].pc = "done"
          /\ invs[i].overlap
          /\ invs[i].result.kind = "return"
          /\ invs[i].result.detection_method = "ensemble"
    /\ invs[1].loc.frames # invs[2].loc.frames
    /\ invs[1].result.confidence # invs[2].result.confidence


\* C17: the external model is loaded under a load-once barrier: across any
\* interleaving of concurrent first requests the model weights are loaded at
\* most once per process, never as duplicate copies.
C17_LoadedAtMostOnce == loads <= 1

\* C18: every AnalysisResult returned by analyze_video, on the no_human,
\* heuristic and ensemble paths alike, has a confidence within [0,1] that is
\* rounded to 2 decimals.
C18_ConfidenceBoundedRounded ==
    Returned =>
        /\ result.detection_method \in {"no_human", "heuristic", "ensemble"}
        /\ 0 <= result.confidence /\ result.confidence <= One
        /\ result.confidence % (One \div 100) = 0

\* an ensemble result whose unrounded confidence has more than 2 decimals
C18_Witness ==
    /\ Returned
    /\ result.detection_method = "ensemble"
    /\ loc.final_confidence.v % (One \div 100) # 0
    /\ result.confidence # loc.final_confidence.v

\* a heuristic result whose unrounded confidence has more than 2 decimals
C18_WitnessHeuristic ==
    /\ Returned
    /\ result.detection_method = "heuristic"
    /\ loc.final_confidence.v % (One \div 100) # 0

\* C19: a frame set that reaches the presence gate and the scoring core is
\* never empty: extract_frames either returns at least 1 and at most
\* max_frames frames, or raises NoFramesExtractedError or
\* VideoProcessingError before any scoring starts.
C19_FramesNeverEmpty ==
    /\ (pc \in {"gate", "heuristic", "model", "classify"} \/ GateRan) =>
           /\ 1 <= Len(loc.frames) /\ Len(loc.frames) <= MaxFramesCfg
           /\ loc.frame_count = Len(loc.frames)
    /\ (pc = "done" /\ ~GateRan) =>
           /\ result \in {Raised("NoFramesExtractedError"),
                          Raised("VideoProcessingError")}
           /\ calls = <<"extract_frames">>
    /\ pc = "extract" =>
           LET r == extract_frames(video, FRAMES_PER_SECOND_SAMPLED, MaxFramesCfg)
           IN  IF r.exc = "none"
               THEN 1 <= Len(r.frames) /\ Len(r.frames) <= MaxFramesCfg
               ELSE /\ r.exc \in {"NoFramesExtractedError", "VideoProcessingError"}
                    /\ r.frames = <<>>

\* a video with more frames than max_frames: the gate sees max_frames of them
C19_Witness ==
    /\ GateRan
    /\ Len(video.src) > MaxFramesCfg
    /\ Len(loc.frames) = MaxFramesCfg

\* a video that opens and holds no frame: NoFramesExtractedError, and no
\* gate or scoring call
C19_WitnessNoFrames ==
    /\ pc = "done"
    /\ video.opened /\ ~video.crash /\ video.src = <<>>
    /\ result = Raised("NoFramesExtractedError")
    /\ calls = <<"extract_frames">>

\* C20: heuristic_score called with an empty frame set fails with an
\* input-validation error (ValueError) before computing any feature, and
\* returns no score.
C20_EmptyFramesRejected ==
    (fn = "heuristic_score" /\ args[1] = <<>>) =>
        /\ ret.exc = "ValueError"
        /\ ret.details = NoDetails
        /\ \A fs \in InputFrameSets(MaxFramesCfg) :
              heuristic_score(fs).exc = "ValueError" <=> fs = <<>>

\* the call with no frames has been made and has raised
C20_Witness ==
    /\ fn = "heuristic_score"
    /\ args = <<(<<>>)>>
    /\ ret.exc = "ValueError"


\* request i has been answered after analyze_video raised
Failed(i) ==
    /\ reqs[i].pc \in {"cleanup", "finished"}
    /\ reqs[i].outcome.result.kind = "raise"

\* the failure began in frame extraction: the video is bad
BadVideo(i) == Failed(i) /\ reqs[i].outcome.origin.at = "extract_frames"

\* the failure began as an unexpected exception inside the gate or scoring
InternalFailure(i) ==
    Failed(i) /\ reqs[i].outcome.origin.at \in {"_contains_human", "heuristic_score"}

\* C21: an unexpected internal failure during scoring reaches the caller as
\* an error distinguishable from a bad-video error (undecodable file or no
\* frames extracted): the two do not have both the same error kind and the
\* same HTTP status.
C21_InternalFailureDistinguishable ==
    \A i, j \in Requests :
        (BadVideo(i) /\ InternalFailure(j)) =>
            \/ reqs[i].outcome.result.exc # reqs[j].outcome.result.exc
            \/ reqs[i].status # reqs[j].status


\* the mean absolute brightness differences of consecutive frames, [0] for
\* fewer than 2 frames
Diffs(fs) ==
    IF Len(fs) < 2 THEN <<0>>
    ELSE [i \in 1..(Len(fs) - 1) |-> Abs(fs[i + 1].gray - fs[i].gray)]

\* min(1, P + 0.6 * norm_std) with norm_mean = min(1, mean/50),
\* norm_std = min(1, std/30), P = 0.25 below 0.1, 0.2 above 0.8, else 0
MotionScore(fs) ==
    LET norm_mean == Min(One, (Mean(Diffs(fs)) * One) \div (50 * RawOne))
        norm_std == Min(One, (Std(Diffs(fs)) * One) \div (30 * RawOne))
        P == IF norm_mean < One \div 10 THEN One \div 4
             ELSE IF norm_mean > (8 * One) \div 10 THEN One \div 5
             ELSE 0
    IN  Min(One, P + (6 * norm_std) \div 10)

C22_WitnessJitter ==
    /\ fn = "heuristic_score" /\ ret.exc = "none"
    /\ ret.details.normalized_temporal_mean > (8 * One) \div 10
    /\ ret.details.optical_flow_score = One \div 5

\* one frame: the score is exactly 0.25
C22_WitnessSingle ==
    /\ fn = "heuristic_score" /\ ret.exc = "none"
    /\ Len(args[1]) = 1
    /\ ret.details.optical_flow_score = One \div 4


C23_WitnessHeuristic ==
    /\ Returned
    /\ result.detection_method = "heuristic"
    /\ env.path = "exists"
    /\ loc.model_confidence = Num(-One)


\* a scan of all the frames, with no early exit: the frames with a face
FramesWithFace(frames) == {i \in 1..Len(frames) : frames[i].faces > 0}

\* C24: the early exit in _contains_human is only an optimisation: for every
\* frame sequence and required_faces = 1, the early-exit scan returns True
\* exactly when a scan of all frames finds at least one frame with a
\* detected face, and False otherwise; the outcome does not depend on which
\* frame triggered the exit.
C24_EarlyExitIsOptimisation ==
    (GateRan /\ env.cascade) =>
        (loc.has_human <=> FramesWithFace(loc.frames) # {})

\* the first frame holds no face, a later one does, and frames follow it
\* that the early exit never looked at
C24_Witness ==
    /\ GateRan /\ env.cascade
    /\ loc.has_human
    /\ 1 \notin FramesWithFace(loc.frames)
    /\ Len(loc.frames) \notin FramesWithFace(loc.frames)

\* no frame holds a face: the scan runs to the end and answers False
C24_WitnessNoFace ==
    /\ GateRan /\ env.cascade
    /\ ~loc.has_human
    /\ Len(loc.frames) >= 2


\* C25: every exception that escapes analyze_video is a VideoProcessingError
\* or a NoFramesExtractedError: errors of those two kinds raised by frame
\* extraction propagate unchanged, and any other exception raised anywhere
\* in the pipeline is wrapped in a VideoProcessingError.
C25_OnlyVideoErrorsEscape ==
    \A i \in Requests :
        Failed(i) =>
            LET escaped == reqs[i].outcome.result.exc
                origin == reqs[i].outcome.origin
            IN  /\ escaped \in {"VideoProcessingError", "NoFramesExtractedError"}
                /\ origin.exc \in {"VideoProcessingError", "NoFramesExtractedError"}
                       => escaped = origin.exc
                /\ origin.exc \notin {"VideoProcessingError", "NoFramesExtractedError"}
                       => escaped = "VideoProcessingError"

\* a numeric routine of heuristic_score raised FloatingPointError and a
\* VideoProcessingError left analyze_video
C25_Witness ==
    \E i \in Requests :
        /\ Failed(i)
        /\ reqs[i].outcome.origin = [at |-> "heuristic_score", exc |-> "FloatingPointError"]
        /\ reqs[i].outcome.result = Raised("VideoProcessingError")

\* extract_frames raised NoFramesExtractedError and it left unchanged
C25_WitnessUnchanged ==
    \E i \in Requests :
        /\ Failed(i)
        /\ reqs[i].outcome.origin = [at |-> "extract_frames", exc |-> "NoFramesExtractedError"]
        /\ reqs[i].outcome.result = Raised("NoFramesExtractedError")


ExtractRan == Len(calls) >= 1 /\ calls[1] = "extract_frames"

\* the frames at indices 0, k, 2k, ... of src in ascending order, the first
\* max_frames of them
SampledFrames(src, k, max_frames) ==
    LET idx == {i \in 0..(Len(src) - 1) : i % k = 0}
        n == Min(max_frames, Cardinality(idx))
    IN  [j \in 1..n |-> src[(j - 1) * k + 1]]

\* k = max(1, int(fps / max(frames_per_second, 0.1))), fps being 25 when
\* the container gives none
SamplingInterval(v) ==
    Max(1, ((IF v.fps = 0 THEN 25 ELSE v.fps) * 10)
               \div Max(FRAMES_PER_SECOND_SAMPLED, 1))

\* what analyze_video got from extract_frames is the sample of the source
SampledInOrder ==
    (video.opened /\ ~video.crash) =>
        LET expected == SampledFrames(video.src, SamplingInterval(video),
                                      MaxFramesCfg)
        IN  IF expected = <<>>
            THEN result = Raised("NoFramesExtractedError")
            ELSE loc.frames = expected /\ result.kind # "raise"

C26_WitnessError ==
    /\ ExtractRan
    /\ video.opened /\ video.crash
    /\ result = Raised("VideoProcessingError")
    /\ loc.released


\* request i has given its temporary file a name
Named(i) == reqs[i].path # NoName

\* request i wrote its upload and has not reached its finally block yet
HoldsFile(i) == reqs[i].wrote /\ reqs[i].pc \in {"analyze", "cleanup"}

\* the temporary file of request i is gone
FileGone(i) == upload_dir[reqs[i].path] = NoFile

\* the requests that are under way or over have different temporary names
DistinctNames ==
    \A i \in Requests, j \in Requests :
        (i # j /\ Named(i) /\ Named(j)) => reqs[i].path # reqs[j].path

\* until its own finally block runs, a request finds what it wrote
OnlyOwnFileDeleted ==
    \A i \in Requests :
        HoldsFile(i) => upload_dir[reqs[i].path] = reqs[i].upload.content

C27_WitnessAllStatuses ==
    /\ reqs[1].pc = "finished" /\ reqs[1].status = 200 /\ FileGone(1)
    /\ reqs[2].pc = "finished" /\ reqs[2].status = 500 /\ Named(2)
    /\ FileGone(2)

\* unlink raised: the request is over and its file is still there
C27_WitnessLeftBehind ==
    /\ reqs[1].pc = "finished" /\ reqs[1].wrote
    /\ reqs[1].fault.at = "unlink"
    /\ upload_dir[reqs[1].path] # NoFile


\* the band of a reported confidence: low < 0.35 <= medium < 0.65 <= high
BandOf(c) ==
    IF c < RISK_LEVEL_LOW_THRESHOLD THEN "low"
    ELSE IF c < RISK_LEVEL_MEDIUM_THRESHOLD THEN "medium"
    ELSE "high"

\* C28: in every returned AnalysisResult, is_ai_generated is true exactly
\* when the reported confidence is at least 0.5, and risk_level is the band
\* (low < 0.35 <= medium < 0.65 <= high) of the reported confidence.
C28_LabelAndRiskFollowReported ==
    Returned =>
        /\ result.is_ai_generated <=>
               result.confidence >= CLASSIFICATION_THRESHOLD
        /\ result.risk_level = BandOf(result.confidence)


\* C29: details carries model_score exactly when detection_method is
\* "ensemble".
C29_ModelScoreIffEnsemble ==
    Returned =>
        ("model_score" \in DOMAIN result.details
             <=> result.detection_method = "ensemble")

\* an ensemble result, with its model_score
C29_Witness ==
    /\ Returned
    /\ result.detection_method = "ensemble"
    /\ "model_score" \in DOMAIN result.details

\* the weights file is there and inference ran but gave nothing: heuristic,
\* no model_score
C29_WitnessFallback ==
    /\ Returned
    /\ env.path = "exists"
    /\ loc.model_confidence = Num(-One)
    /\ result.detection_method = "heuristic"
    /\ "model_score" \notin DOMAIN result.details

\* C30: risk_level "high" implies is_ai_generated True and "low" implies
\* False; only "medium" carries either label.
C30_RiskAgreesWithLabel ==
    Returned =>
        /\ result.risk_level = "high" => result.is_ai_generated
        /\ result.risk_level = "low" => ~result.is_ai_generated

\* a high-risk result, labelled AI-generated
C30_Witness ==
    Returned /\ result.risk_level = "high" /\ result.is_ai_generated

\* a low-risk scored result, labelled authentic
C30_WitnessLow ==
    /\ Returned /\ result.detection_method # "no_human"
    /\ result.risk_level = "low" /\ ~result.is_ai_generated

\* a medium-risk result labelled AI-generated
C30_WitnessMediumTrue ==
    Returned /\ result.risk_level = "medium" /\ result.is_ai_generated

\* a medium-risk result labelled authentic
C30_WitnessMediumFalse ==
    Returned /\ result.risk_level = "medium" /\ ~result.is_ai_generated

====
